---- MODULE Spec2Model ----
(***************************************************************************)
(* A model of lib/loady.js: the dynamic loader for node.js native          *)
(* bindings.  One call to loady() is a sequence of steps: Call (argument   *)
(* validation, name normalisation, ensurePath, cache lookup), RootStep     *)
(* (one iteration of the getRoot loop) and LoadStep (one iteration of the  *)
(* candidate loop, including the exhaustion error after the last one).      *)
(*                                                                         *)
(* Text is modelled as follows.  A module name is a TLA+ string.  A path   *)
(* is the sequence of its segments; an absolute path starts with the       *)
(* segment "/".  A file URL is the sequence <<"file:", host>> followed by  *)
(* an absolute path.  A value that is not a string has t # "string".       *)
(***************************************************************************)
EXTENDS Integers, Sequences, FiniteSets, TLC

VARIABLES fs, hasFileURLToPath, cache, pc, args, name, path, key, root, i,
          tries, result, tested, loaded, lastLoad, firstOk, retry, ncalls,
          defaultsNow

vars == <<fs, hasFileURLToPath, cache, pc, args, name, path, key, root, i,
          tries, result, tested, loaded, lastLoad, firstOk, retry, ncalls,
          defaultsNow>>

(***************************************************************************)
(* Bounds.                                                                 *)
(***************************************************************************)
MaxCalls == 2

(***************************************************************************)
(* The host: process.cwd() and the values of process.* read by defaults.   *)
(***************************************************************************)
cwd == <<"/", "a">>

defaults ==
  [root     |-> <<"/">>,
   name     |-> <<"bindings.node">>,
   arch     |-> <<"x64">>,
   compiled |-> <<"compiled">>,
   pregyp   |-> <<"node-v108-linux-x64">>,
   platform |-> <<"linux">>,
   version  |-> <<"18.0.0">>]

\* The template list with the legacy Debug entry tried before out/Debug.
pathsSwapped ==
  << <<"$root", "build", "$name">>,
     <<"$root", "build", "Debug", "$name">>,
     <<"$root", "build", "Release", "$name">>,
     <<"$root", "$name">>,
     <<"$root", "Debug", "$name">>,
     <<"$root", "Release", "$name">>,
     <<"$root", "MinSizeRel", "$name">>,
     <<"$root", "RelWithDebInfo", "$name">>,
     <<"$root", "Debug", "$name">>,
     <<"$root", "out", "Debug", "$name">>,
     <<"$root", "out", "Release", "$name">>,
     <<"$root", "Release", "$name">>,
     <<"$root", "build", "default", "$name">>,
     <<"$root", "$compiled", "$version", "$platform", "$arch", "$name">>,
     <<"$root", "addon-build", "release", "install-root", "$name">>,
     <<"$root", "addon-build", "debug", "install-root", "$name">>,
     <<"$root", "addon-build", "default", "install-root", "$name">>,
     <<"$root", "lib", "binding", "$pregyp", "$name">> >>

\* The template list with the two repeated entries removed.
pathsDeduped ==
  << <<"$root", "build", "$name">>,
     <<"$root", "build", "Debug", "$name">>,
     <<"$root", "build", "Release", "$name">>,
     <<"$root", "$name">>,
     <<"$root", "Debug", "$name">>,
     <<"$root", "Release", "$name">>,
     <<"$root", "MinSizeRel", "$name">>,
     <<"$root", "RelWithDebInfo", "$name">>,
     <<"$root", "out", "Debug", "$name">>,
     <<"$root", "out", "Release", "$name">>,
     <<"$root", "build", "default", "$name">>,
     <<"$root", "$compiled", "$version", "$platform", "$arch", "$name">>,
     <<"$root", "addon-build", "release", "install-root", "$name">>,
     <<"$root", "addon-build", "debug", "install-root", "$name">>,
     <<"$root", "addon-build", "default", "install-root", "$name">>,
     <<"$root", "lib", "binding", "$pregyp", "$name">> >>

paths ==
  << <<"$root", "build", "$name">>,
     <<"$root", "build", "Debug", "$name">>,
     <<"$root", "build", "Release", "$name">>,
     <<"$root", "$name">>,
     <<"$root", "Debug", "$name">>,
     <<"$root", "Release", "$name">>,
     <<"$root", "MinSizeRel", "$name">>,
     <<"$root", "RelWithDebInfo", "$name">>,
     <<"$root", "out", "Debug", "$name">>,
     <<"$root", "Debug", "$name">>,
     <<"$root", "out", "Release", "$name">>,
     <<"$root", "Release", "$name">>,
     <<"$root", "build", "default", "$name">>,
     <<"$root", "$compiled", "$version", "$platform", "$arch", "$name">>,
     <<"$root", "addon-build", "release", "install-root", "$name">>,
     <<"$root", "addon-build", "debug", "install-root", "$name">>,
     <<"$root", "addon-build", "default", "install-root", "$name">>,
     <<"$root", "lib", "binding", "$pregyp", "$name">> >>

(***************************************************************************)
(* Strings and paths (require('path')).                                    *)
(***************************************************************************)
CharAt(s, k) == SubSeq(s, k, k)

RECURSIVE LastDot(_, _)
LastDot(s, k) ==
  IF k = 0 THEN 0
  ELSE IF CharAt(s, k) = "." THEN k
  ELSE LastDot(s, k - 1)

\* path.extname on a file name without separators: the text from the last
\* dot on, or "" if there is no dot or the only dot is the first character.
extname(s) ==
  LET d == LastDot(s, Len(s))
  IN  IF d <= 1 THEN "" ELSE SubSeq(s, d, Len(s))

isAbsolute(p) == Len(p) > 0 /\ p[1] = "/"

Front(p) == SubSeq(p, 1, Len(p) - 1)

RECURSIVE NormSegs(_, _)
NormSegs(segs, acc) ==
  IF segs = <<>> THEN acc
  ELSE LET s == Head(segs)
       IN  IF s = "." \/ s = "" THEN NormSegs(Tail(segs), acc)
           ELSE IF s = ".."
             THEN NormSegs(Tail(segs), IF acc = <<>> THEN acc ELSE Front(acc))
           ELSE NormSegs(Tail(segs), Append(acc, s))

normalize(p) ==
  IF isAbsolute(p) THEN <<"/">> \o NormSegs(Tail(p), <<>>)
  ELSE NormSegs(p, <<>>)

resolve(p) == IF isAbsolute(p) THEN normalize(p) ELSE normalize(cwd \o p)

\* A dirname for which the filesystem root is not its own parent.
dirnameNoFixedPoint(p) ==
  IF Len(p) <= 1 THEN <<".">>
  ELSE Front(p)

dirname(p) ==
  IF p = <<"/">> THEN p
  ELSE IF Len(p) <= 1 THEN <<".">>
  ELSE Front(p)

RECURSIVE Flatten(_)
Flatten(ss) == IF ss = <<>> THEN <<>> ELSE Head(ss) \o Flatten(Tail(ss))

join(names) == normalize(Flatten(names))

(***************************************************************************)
(* File URLs (require('url')).  fileURLToPath rejects a URL with a host    *)
(* and otherwise returns the URL's path with its dot segments removed.     *)
(***************************************************************************)
isFileURL(p) == Len(p) > 0 /\ p[1] = "file:"

urlHost(u) == IF Len(u) >= 2 THEN u[2] ELSE ""

fileURLToPath(u) == normalize(SubSeq(u, 3, Len(u)))

(***************************************************************************)
(* Values and errors.                                                      *)
(***************************************************************************)
Undefined == [type |-> "undefined", id |-> 0]

Null == [type |-> "null", id |-> 0]

Object(n) == [type |-> "object", id |-> n]

Number(n) == [type |-> "number", id |-> n]

\* A cache test that never hits.
TruthyNever(v) == FALSE

\* JavaScript truthiness of a value, as used by `if (cache[key])`.
Truthy(v) == v.type = "object" \/ (v.type = "number" /\ v.id # 0)

Error(cls, code, message) ==
  [name |-> cls, code |-> code, message |-> message,
   path |-> <<>>, url |-> <<>>, tries |-> <<>>]

NoError == Error("", "", "")

NameTypeError == Error("TypeError", "", "\"name\" must be a string.")

\* A validation that throws a plain Error for a bad path.
PathTypeErrorPlain == Error("Error", "", "\"path\" must be a string.")

PathTypeError == Error("TypeError", "", "\"path\" must be a string.")

\* The unsupported-platform error without its url property.
FileURIErrorBare(url) ==
  Error("Error", "ERR_BINDINGS_FILE_URI",
        "File URLs are unsupported on this platform.")

FileURIError(url) ==
  [Error("Error", "ERR_BINDINGS_FILE_URI",
         "File URLs are unsupported on this platform.") EXCEPT !.url = url]

InvalidHostError ==
  Error("TypeError", "ERR_INVALID_FILE_URL_HOST",
        "File URL host must be \"localhost\" or empty on linux")

NoRootError(p) ==
  [Error("Error", "ERR_BINDINGS_NO_ROOT",
         "Could not find module root given file.") EXCEPT !.path = p]

NotFoundError(t) ==
  [Error("Error", "ERR_BINDINGS_NOT_FOUND",
         "Could not locate the bindings file.") EXCEPT !.tries = t]

\* The test without the i flag: /not find/.test(message)
NotFindTestCaseSensitive(m) ==
  \E k \in 1..(Len(m) - 7) : SubSeq(m, k, k + 7) = "not find"

\* /not find/i.test(message)
NotFindTest(m) ==
  \E k \in 1..(Len(m) - 7) :
    \A j \in 1..8 :
      CharAt(m, k + j - 1) \in {CharAt("not find", j), CharAt("NOT FIND", j)}

\* A catch block that swallows every error.
isNotFoundAll(e) == TRUE

\* The catch block of the candidate loop: TRUE when the error is swallowed
\* and the loop continues.
isNotFound(e) ==
  \/ e.code = "MODULE_NOT_FOUND"
  \/ e.code = "QUALIFIED_PATH_RESOLUTION_FAILED"
  \/ NotFindTest(e.message)

(***************************************************************************)
(* The environment: the file system seen by existsSync, and what the       *)
(* loader (require) may do with a file.                                    *)
(***************************************************************************)
Dirs == { <<"/">>, <<"/", "a">>, <<"/", "a", "b">>, <<"/", "a", "b", "c">> }

existsSync(file) ==
  LET d == dirname(file)
      f == file[Len(file)]
  IN  \/ f = "package.json" /\ d \in fs.pkg
      \/ f = "node_modules" /\ d \in fs.nm

Artifacts == { Object(1), Object(2), Number(0) }

LoadErrors ==
  { Error("Error", "MODULE_NOT_FOUND", "no such module"),
    Error("Error", "QUALIFIED_PATH_RESOLUTION_FAILED", "resolution failed"),
    Error("Error", "", "Could Not Find the file"),
    Error("Error", "ERR_DLOPEN_FAILED", "invalid ELF header"),
    Error("Error", "ENOENT", "file not found") }

Loaded(v) == [kind |-> "ok", val |-> v, err |-> NoError]

Threw(e) == [kind |-> "throw", val |-> Undefined, err |-> e]

NoLoad == [kind |-> "none", val |-> Undefined, err |-> NoError]

LoaderOutcomes == { Loaded(v) : v \in Artifacts } \cup { Threw(e) : e \in LoadErrors }

(***************************************************************************)
(* The arguments a caller may pass.                                        *)
(***************************************************************************)
Str(s) == [t |-> "string", s |-> s]

Names == { Str("foo"), Str("foo.node"), Str("foo.js"), [t |-> "number", s |-> ""] }

Paths ==
  { Str(<<"/", "a", "b", "c">>),
    Str(<<"..", "a", "b">>),
    Str(<<"file:", "", "/", "a", "b", "c", "index.js">>),
    Str(<<"file:", "host", "/", "a", "b", "c", "index.js">>),
    [t |-> "number", s |-> <<>>] }

(***************************************************************************)
(* The cache object and the cache key.                                     *)
(***************************************************************************)
EmptyCache == [k \in {} |-> Undefined]

\* cache[key]: undefined for a key that was never set.
Get(c, k) == IF k \in DOMAIN c THEN c[k] ELSE Undefined

\* An assignment that is lost.
PutNothing(c, k, v) == c

\* cache[key] = v
Put(c, k, v) == [x \in DOMAIN c \cup {k} |-> IF x = k THEN v ELSE c[x]]

\* A loop that stores the binding variable whether or not the load threw.
cacheAfterAlways(c, k, out) ==
  Put(c, k, IF out.kind = "ok" THEN out.val ELSE Null)

\* let binding = null; try { binding = loader(file) } catch ... ;
\* cache[key] = binding: the cache after one iteration of the candidate loop.
cacheAfter(c, k, out) == IF out.kind = "ok" THEN Put(c, k, out.val) ELSE c

\* `${name}\0${path}`
CacheKey(n, p) == <<n, "\\0">> \o p

(***************************************************************************)
(* Pure parts of loady().                                                  *)
(***************************************************************************)
\* A normalisation that appends the extension without looking.
normalizeNameAlways(n) == n \o ".node"

\* if (extname(name) !== '.node') name += '.node'
normalizeName(n) == IF extname(n) # ".node" THEN n \o ".node" ELSE n

Ok(p) == [threw |-> FALSE, path |-> p, err |-> NoError]

Fail(e) == [threw |-> TRUE, path |-> <<>>, err |-> e]

\* A conversion that returns the file of a URL instead of its directory.
ensurePathNoDirname(p) ==
  IF isFileURL(p)
    THEN IF ~hasFileURLToPath THEN Fail(FileURIError(p))
         ELSE IF urlHost(p) # "" THEN Fail(InvalidHostError)
         ELSE Ok(fileURLToPath(p))
    ELSE Ok(p)

ensurePath(p) ==
  IF isFileURL(p)
    THEN IF ~hasFileURLToPath THEN Fail(FileURIError(p))
         ELSE IF urlHost(p) # "" THEN Fail(InvalidHostError)
         ELSE Ok(dirname(fileURLToPath(p)))
    ELSE Ok(p)

\* Options that are the defaults object itself: the assignments of root and
\* name land in the defaults.
assignOptionsShared(d, r, n) == [d EXCEPT !.root = r, !.name = <<n>>]

\* What options = Object.create(defaults); options.root = r;
\* options.name = n leaves in the defaults object d: the two properties
\* are set on the new object.
assignOptions(d, r, n) == d

\* The properties read through options: its own root and name, the rest
\* inherited from the defaults object.
Options(r, n) == [defaultsNow EXCEPT !.root = r, !.name = <<n>>]

expandPart(part, options) ==
  IF CharAt(part, 1) = "$" THEN options[SubSeq(part, 2, Len(part))]
  ELSE <<part>>

\* The file built from one template: join(...names).
candidate(parts, options) ==
  join([k \in 1..Len(parts) |-> expandPart(parts[k], options)])

\* A test that knows only the package.json marker.
hasMarkerPackageOnly(r) == existsSync(join(<<r, <<"package.json">>>>))

\* One test of the getRoot loop.
hasMarker(r) ==
  \/ existsSync(join(<<r, <<"package.json">>>>))
  \/ existsSync(join(<<r, <<"node_modules">>>>))

(***************************************************************************)
(* State.  The variables of one call (name, path, key, root, i, tries and   *)
(* the result) keep their last values until the next call starts.  Four    *)
(* history variables record what a call did: tested (the directories       *)
(* getRoot tested), loaded (the files the loader was invoked with),        *)
(* lastLoad (the outcome of the latest load attempt) and retry (the call   *)
(* repeats the arguments of a call that has just failed); firstOk maps the *)
(* arguments of every call that loaded a binding to the first binding they *)
(* returned.  defaultsNow is the defaults object as it is now.              *)
(***************************************************************************)
NoArgs == [name |-> [t |-> "undefined", s |-> ""],
           path |-> [t |-> "undefined", s |-> <<>>]]

NoResult == [kind |-> "none", val |-> Undefined, err |-> NoError]

Return(v) == [kind |-> "return", val |-> v, err |-> NoError]

Throw(e) == [kind |-> "throw", val |-> Undefined, err |-> e]

AllLayouts == [pkg : SUBSET Dirs, nm : SUBSET Dirs]

MainLayouts ==
  { [pkg |-> {}, nm |-> {}],
    [pkg |-> {<<"/", "a">>}, nm |-> {<<"/", "a", "b", "c">>}] }

InitIn(layouts) ==
  /\ fs \in layouts
  /\ hasFileURLToPath \in BOOLEAN
  /\ cache = EmptyCache
  /\ pc = "idle"
  /\ args = NoArgs
  /\ name = ""
  /\ path = <<>>
  /\ key = <<>>
  /\ root = <<>>
  /\ i = 0
  /\ tries = <<>>
  /\ result = NoResult
  /\ tested = <<>>
  /\ loaded = <<>>
  /\ lastLoad = NoLoad
  /\ firstOk = EmptyCache
  /\ retry = FALSE
  /\ defaultsNow = defaults
  /\ ncalls = 0

Init == InitIn(MainLayouts)

InitRoot == InitIn(AllLayouts)

(***************************************************************************)
(* loady(name, path), lines 72-97: validation, normalisation, ensurePath,  *)
(* the cache lookup and the entry into getRoot.                            *)
(***************************************************************************)
Enter(n, p) ==
  /\ args' = [name |-> n, path |-> p]
  /\ ncalls' = ncalls + 1
  /\ i' = 0
  /\ tries' = <<>>
  /\ tested' = <<>>
  /\ loaded' = <<>>
  /\ lastLoad' = NoLoad
  /\ retry' = (result.kind = "throw" /\ args = [name |-> n, path |-> p])
  /\ UNCHANGED <<fs, hasFileURLToPath, cache, firstOk, defaultsNow>>

Call(n, p) ==
  /\ pc = "idle"
  /\ ncalls < MaxCalls
  /\ Enter(n, p)
  /\ IF n.t # "string"
       THEN /\ result' = Throw(NameTypeError)
            /\ pc' = "idle"
            /\ name' = "" /\ path' = <<>> /\ key' = <<>> /\ root' = <<>>
     ELSE IF p.t # "string"
       THEN /\ result' = Throw(PathTypeError)
            /\ pc' = "idle"
            /\ name' = "" /\ path' = <<>> /\ key' = <<>> /\ root' = <<>>
     ELSE LET nn == normalizeName(n.s)
              ep == ensurePath(p.s)
              k  == CacheKey(nn, ep.path)
          IN  IF ep.threw
                THEN /\ result' = Throw(ep.err)
                     /\ pc' = "idle"
                     /\ name' = nn /\ path' = <<>> /\ key' = <<>>
                     /\ root' = <<>>
              ELSE IF Truthy(Get(cache, k))
                THEN /\ result' = Return(Get(cache, k))
                     /\ pc' = "idle"
                     /\ name' = nn /\ path' = ep.path /\ key' = k
                     /\ root' = <<>>
              ELSE /\ result' = NoResult
                   /\ pc' = "root"
                   /\ name' = nn /\ path' = ep.path /\ key' = k
                   /\ root' = resolve(ep.path)

(***************************************************************************)
(* getRoot(path), lines 147-164: one iteration of the loop.                *)
(***************************************************************************)
RootStep ==
  /\ pc = "root"
  /\ tested' = Append(tested, root)
  /\ IF hasMarker(root)
       THEN /\ pc' = "load"
            /\ i' = 1
            /\ defaultsNow' = assignOptions(defaultsNow, root, name)
            /\ UNCHANGED <<root, result>>
     ELSE LET next == dirname(root)
          IN  IF next = root
                THEN /\ result' = Throw(NoRootError(path))
                     /\ pc' = "idle"
                     /\ UNCHANGED <<root, i, defaultsNow>>
              ELSE /\ root' = next
                   /\ UNCHANGED <<pc, i, result, defaultsNow>>
  /\ UNCHANGED <<fs, hasFileURLToPath, cache, args, name, path, key, tries,
                 loaded, lastLoad, firstOk, retry, ncalls>>

(***************************************************************************)
(* loady(name, path), lines 99-141: one iteration of the candidate loop;   *)
(* after the last template the loop ends and the exhaustion error is       *)
(* thrown.                                                                 *)
(***************************************************************************)
LoadStep ==
  /\ pc = "load"
  /\ i <= Len(paths)
  /\ LET file == candidate(paths[i], Options(root, name))
     IN  /\ tries' = Append(tries, file)
         /\ loaded' = Append(loaded, file)
         /\ \E out \in LoaderOutcomes :
              /\ lastLoad' = out
              /\ cache' = cacheAfter(cache, key, out)
              /\ IF out.kind = "ok"
                   THEN /\ result' = Return(out.val)
                        /\ pc' = "idle"
                        /\ firstOk' = IF args \in DOMAIN firstOk THEN firstOk
                                      ELSE Put(firstOk, args, out.val)
                        /\ UNCHANGED i
                 ELSE IF ~isNotFound(out.err)
                   THEN /\ result' = Throw(out.err)
                        /\ pc' = "idle"
                        /\ UNCHANGED <<firstOk, i>>
                 ELSE IF i < Len(paths)
                   THEN /\ i' = i + 1
                        /\ UNCHANGED <<firstOk, result, pc>>
                 ELSE /\ i' = i + 1
                      /\ result' = Throw(NotFoundError(tries'))
                      /\ pc' = "idle"
                      /\ UNCHANGED firstOk
  /\ UNCHANGED <<fs, hasFileURLToPath, args, name, path, key, root, tested,
                 retry, ncalls, defaultsNow>>

Next ==
  \/ \E n \in Names, p \in Paths : Call(n, p)
  \/ RootStep
  \/ LoadStep

Spec == Init /\ [][Next]_vars

\* One call from the initial state, in which every existence test and
\* every load attempt returns: the call keeps taking its steps.
CallOnce(n, p) == ncalls = 0 /\ Call(n, p)

NextOnce ==
  \/ \E n \in Names, p \in Paths : CallOnce(n, p)
  \/ RootStep
  \/ LoadStep

SpecFair ==
  Init /\ [][NextOnce]_vars /\ WF_vars(RootStep) /\ WF_vars(LoadStep)

\* getRoot on its own: every placement of markers, no load attempts.
NextRoot ==
  \/ \E n \in Names, p \in Paths : Call(n, p)
  \/ RootStep

SpecRoot == InitRoot /\ [][NextRoot]_vars

(***************************************************************************)
(* Properties.                                                             *)
(*                                                                         *)
(* What the properties expect is written here independently of the model:  *)
(* the search order of section 6 of the specification, and which loader    *)
(* errors count as not-found.                                              *)
(***************************************************************************)
SearchOrder ==
  << <<"build">>,
     <<"build", "Debug">>,
     <<"build", "Release">>,
     <<>>,
     <<"Debug">>,
     <<"Release">>,
     <<"MinSizeRel">>,
     <<"RelWithDebInfo">>,
     <<"out", "Debug">>,
     <<"Debug">>,
     <<"out", "Release">>,
     <<"Release">>,
     <<"build", "default">>,
     <<"compiled", "18.0.0", "linux", "x64">>,
     <<"addon-build", "release", "install-root">>,
     <<"addon-build", "debug", "install-root">>,
     <<"addon-build", "default", "install-root">>,
     <<"lib", "binding", "node-v108-linux-x64">> >>

\* The k-th candidate of the running call: root/<k-th location>/name.
ExpectedFile(k) == root \o SearchOrder[k] \o <<name>>

NotFoundOutcomes ==
  { Threw(Error("Error", "MODULE_NOT_FOUND", "no such module")),
    Threw(Error("Error", "QUALIFIED_PATH_RESOLUTION_FAILED", "resolution failed")),
    Threw(Error("Error", "", "Could Not Find the file")) }

FatalOutcomes ==
  { Threw(Error("Error", "ERR_DLOPEN_FAILED", "invalid ELF header")),
    Threw(Error("Error", "ENOENT", "file not found")) }

\* A step in which the loader is invoked once more.
Attempt == Len(loaded') > Len(loaded)

\* C1: the k-th load attempt of a call is on the file expanded from the k-th
\* template, and an attempt after the first is made only if the attempt
\* before it ended in a not-found failure.
C1_TemplateOrder ==
  [][Attempt =>
       /\ loaded' = Append(loaded, ExpectedFile(Len(loaded) + 1))
       /\ (loaded # <<>> => lastLoad \in NotFoundOutcomes)]_vars

\* C1 witness: a call got as far as the tenth candidate, the duplicate of
\* the fifth.
C1_Witness ==
  /\ Len(loaded) = 10
  /\ loaded[10] = loaded[5]
  /\ loaded[9] # loaded[10]

\* C2: if a load attempt raises an error that is not a not-found failure,
\* the call fails at once with that same error, the cache is unchanged and
\* no further candidate is attempted in the call.
C2_FailFast ==
  [][/\ (Attempt /\ lastLoad' \in FatalOutcomes) =>
          /\ result' = Throw(lastLoad'.err)
          /\ pc' = "idle"
          /\ cache' = cache
     /\ (lastLoad \in FatalOutcomes => ~Attempt)]_vars

\* C2 witness: the third candidate raised a fatal error and the call failed
\* with it.
C2_Witness ==
  /\ pc = "idle"
  /\ Len(loaded) = 3
  /\ lastLoad \in FatalOutcomes
  /\ result = Throw(lastLoad.err)

C4_Exhaustion ==
  /\ (Len(loaded) = 18 /\ lastLoad \in NotFoundOutcomes) =>
        /\ pc = "idle"
        /\ result.kind = "throw"
        /\ result.err.code = "ERR_BINDINGS_NOT_FOUND"
  /\ (result.kind = "throw" /\ result.err.code = "ERR_BINDINGS_NOT_FOUND") =>
        /\ Len(result.err.tries) = 18
        /\ result.err.tries = loaded
        /\ \A k \in 1..18 : result.err.tries[k] = ExpectedFile(k)
        /\ result.err.tries[10] = result.err.tries[5]
        /\ result.err.tries[12] = result.err.tries[6]

\* C4 witness: a call exhausted all candidates.
C4_Witness ==
  /\ pc = "idle"
  /\ result.kind = "throw"
  /\ result.err.code = "ERR_BINDINGS_NOT_FOUND"
  /\ Len(loaded) = 18

\* A step that starts a call.
Starts == ncalls' = ncalls + 1

\* C5 (as claimed): once loady(name, path) has succeeded, every later call
\* with the same arguments returns the artifact of the first call, without
\* testing for a root marker and without a load attempt.
C5_Idempotent ==
  [][(Starts /\ args' \in DOMAIN firstOk) =>
       /\ pc' = "idle"
       /\ result' = Return(firstOk[args'])
       /\ tested' = <<>>
       /\ loaded' = <<>>]_vars

\* C6: the cache changes only in a step that loads and returns a binding,
\* so a call that fails leaves it as it was; and a call that repeats the
\* arguments of a call that has just failed is not answered from the
\* cache: if the failed call had reached the search, the new call starts
\* the root walk again from the same directory with no candidate tried,
\* and otherwise it fails in the same way again.
C6_CacheOnlyOnSuccess ==
  [][/\ (cache' # cache =>
           Attempt /\ lastLoad'.kind = "ok" /\ result' = Return(lastLoad'.val))
     /\ (result'.kind = "throw" => cache' = cache)
     /\ (Starts /\ result.kind = "throw" /\ args' = args) =>
           /\ result'.kind # "return"
           /\ IF tested # <<>>
                THEN /\ pc' = "root"
                     /\ root' = tested[1]
                     /\ tested' = <<>>
                     /\ loaded' = <<>>
                     /\ tries' = <<>>
                ELSE pc' = "idle" /\ result' = result]_vars

\* C6 witness: a call failed after trying candidates and was repeated; the
\* repeated call has walked to the root again and is about to try the first
\* candidate.
C6_Witness ==
  /\ retry
  /\ pc = "load"
  /\ i = 1
  /\ loaded = <<>>
  /\ tested # <<>>

\* C7 (as claimed): once a key has a cached artifact, it maps to that same
\* artifact forever.
C7_WriteOnce ==
  [][\A k \in DOMAIN cache : k \in DOMAIN cache' /\ cache'[k] = cache[k]]_vars

\* C8 (as claimed): a call is answered from the cache only if a call with
\* literally the same normalized name and origin path succeeded before.
C8_NoCollision ==
  [][(Starts /\ pc' = "idle" /\ result'.kind = "return") =>
       \E a \in DOMAIN firstOk :
         /\ normalizeName(a.name.s) = normalizeName(args'.name.s)
         /\ a.path = args'.path]_vars

Marked(d) == d \in fs.pkg \cup fs.nm

\* A directory and all directories above it.
Ancestors(d) == { SubSeq(d, 1, k) : k \in 1..Len(d) }

\* C9: getRoot returns the nearest directory of the chain, the starting
\* directory included, that holds package.json or node_modules, and tests
\* exactly the directories from the start up to that one.
C9_NearestRoot ==
  pc = "load" =>
    LET start == resolve(path)
    IN  /\ root \in Ancestors(start)
        /\ Marked(root)
        /\ \A d \in Ancestors(start) : Len(d) > Len(root) => ~Marked(d)
        /\ Len(tested) = Len(start) - Len(root) + 1
        /\ \A k \in 1..Len(tested) :
             tested[k] = SubSeq(start, 1, Len(start) - k + 1)

\* C9 witness: chain /a/b/c, /a/b, /a, / with node_modules at /a only; the
\* root is /a and / was not tested.
C9_Witness ==
  /\ pc = "load"
  /\ fs.pkg = {}
  /\ fs.nm = {<<"/", "a">>}
  /\ root = <<"/", "a">>
  /\ tested = << <<"/", "a", "b", "c">>, <<"/", "a", "b">>, <<"/", "a">> >>

\* C10 (as claimed): if no directory from the starting directory up to the
\* filesystem root holds a marker, the call fails with ERR_BINDINGS_NO_ROOT
\* and the error carries the origin path as the caller supplied it.
C10_NoRootCarriesOrigin ==
  (pc = "idle" /\ tested # <<>>
     /\ \A d \in Ancestors(resolve(path)) : ~Marked(d)) =>
    /\ result.kind = "throw"
    /\ result.err.code = "ERR_BINDINGS_NO_ROOT"
    /\ result.err.path = args.path.s

\* A step that starts a call with a string name and a file: URL origin, and
\* in which the call fails before returning from ensurePath.
URLCallFails ==
  /\ Starts
  /\ args'.name.t = "string"
  /\ args'.path.t = "string"
  /\ Len(args'.path.s) > 0
  /\ args'.path.s[1] = "file:"
  /\ pc' = "idle"
  /\ result'.kind = "throw"

NothingDone == cache' = cache /\ tested' = <<>> /\ loaded' = <<>>

\* C11 (as claimed): for a file: origin, whenever the conversion to a path
\* fails, the call fails with ERR_BINDINGS_FILE_URI carrying the original
\* URI, and no root search, load attempt or cache write happens.
C11_ConversionFailure ==
  [][URLCallFails =>
       /\ result'.err.code = "ERR_BINDINGS_FILE_URI"
       /\ result'.err.url = args'.path.s
       /\ NothingDone]_vars

\* C11 (amended): for a file: origin, if the host has no fileURLToPath the
\* call fails with ERR_BINDINGS_FILE_URI carrying the original URI; if
\* fileURLToPath itself rejects the URL, the call fails with that
\* function's own error; in both cases no root search, load attempt or
\* cache write happens.
C11_UnsupportedOrRejected ==
  [][/\ URLCallFails =>
          /\ IF ~hasFileURLToPath
               THEN /\ result'.err.code = "ERR_BINDINGS_FILE_URI"
                    /\ result'.err.url = args'.path.s
               ELSE /\ result'.err.code = "ERR_INVALID_FILE_URL_HOST"
                    /\ result'.err.name = "TypeError"
                    /\ args'.path.s[2] # ""
          /\ NothingDone
     /\ (Starts /\ ~hasFileURLToPath /\ args'.name.t = "string"
           /\ args'.path.t = "string" /\ Len(args'.path.s) > 0
           /\ args'.path.s[1] = "file:") => URLCallFails]_vars

\* C11 witness: on a host without fileURLToPath a call with a well-formed
\* file: URL failed with ERR_BINDINGS_FILE_URI carrying that URL.
C11_Witness ==
  /\ pc = "idle"
  /\ ~hasFileURLToPath
  /\ args.path.s = <<"file:", "", "/", "a", "b", "c", "index.js">>
  /\ result.kind = "throw"
  /\ result.err.code = "ERR_BINDINGS_FILE_URI"
  /\ result.err.url = args.path.s
  /\ tested = <<>>
  /\ loaded = <<>>

\* The absolute directory that contains the origin: for a file: URL the
\* directory of the file, for a plain path the parent of the resolved path.
ContainingDir(o) ==
  IF o[1] = "file:" THEN Front(SubSeq(o, 3, Len(o)))
  ELSE Front(resolve(o))

\* C12 (as claimed): the first directory getRoot tests is the absolute,
\* resolved directory containing the origin path.
C12_StartsAtContainingDir ==
  tested # <<>> => tested[1] = ContainingDir(args.path.s)

\* C12 (amended): for a file: URL origin the first directory getRoot tests
\* is the directory containing the file the URL names; for a plain origin
\* path it is that path itself, resolved to an absolute path.
C12_StartDirectory ==
  tested # <<>> =>
    /\ args.path.s[1] = "file:" => tested[1] = ContainingDir(args.path.s)
    /\ args.path.s[1] # "file:" => tested[1] = resolve(args.path.s)
    /\ tested[1][1] = "/"
    /\ \A k \in 1..Len(tested[1]) : tested[1][k] \notin {".", ".."}

\* C12 witness: for file:///a/b/c/index.js the walk started at /a/b/c.
C12_Witness ==
  /\ args.path.s = <<"file:", "", "/", "a", "b", "c", "index.js">>
  /\ tested # <<>>
  /\ tested[1] = <<"/", "a", "b", "c">>

\* The name a caller's name stands for.
ExpectedName(n) ==
  CASE n = "foo" -> "foo.node"
    [] n = "foo.node" -> "foo.node"
    [] n = "foo.js" -> "foo.js.node"

\* The ordered candidate list loady builds for a name under a root.
CandidateList(n, r) ==
  [k \in 1..Len(paths) |-> candidate(paths[k], Options(r, normalizeName(n)))]

\* C13: every candidate ends in the name with the .node extension, which is
\* in place before the first candidate is built, and the names foo and
\* foo.node give the same ordered candidate list.
C13_NameNormalized ==
  /\ pc \in {"root", "load"} =>
       /\ name = ExpectedName(args.name.s)
       /\ SubSeq(name, Len(name) - 4, Len(name)) = ".node"
  /\ \A k \in 1..Len(loaded) :
       /\ loaded[k][Len(loaded[k])] = ExpectedName(args.name.s)
       /\ loaded[k] = CandidateList(args.name.s, root)[k]
  /\ pc = "load" =>
       /\ CandidateList("foo", root) = CandidateList("foo.node", root)
       /\ \A k \in 1..18 :
            CandidateList("foo", root)[k] = root \o SearchOrder[k] \o <<"foo.node">>

\* C13 witness: a call with the name foo has tried two candidates that end
\* in foo.node.
C13_Witness ==
  /\ args.name.s = "foo"
  /\ Len(loaded) >= 2
  /\ loaded[2][Len(loaded[2])] = "foo.node"

\* C14: if name or path is not a string, the step that starts the call
\* ends it with a TypeError naming the bad argument (the name first),
\* without a URI conversion error, a cache hit, a root-marker test or a
\* load attempt, and the cache is unchanged.
C14_ArgumentValidation ==
  [][(Starts /\ (args'.name.t # "string" \/ args'.path.t # "string")) =>
       /\ pc' = "idle"
       /\ result'.kind = "throw"
       /\ result'.err.name = "TypeError"
       /\ result'.err.code = ""
       /\ result'.err.message =
            IF args'.name.t # "string" THEN "\"name\" must be a string."
            ELSE "\"path\" must be a string."
       /\ NothingDone]_vars

\* C14 witness: with a binding cached, a call with a string name and a
\* path that is not a string failed with the TypeError for path.
C14_Witness ==
  /\ pc = "idle"
  /\ args.name.t = "string"
  /\ args.path.t # "string"
  /\ result.kind = "throw"
  /\ result.err.name = "TypeError"
  /\ result.err.message = "\"path\" must be a string."
  /\ DOMAIN cache # {}
  /\ tested = <<>>

\* The messages of the loader's errors that contain "not find" in some
\* letter case.
NotFindMessages == { "Could Not Find the file" }

\* C15: a failed load attempt is swallowed (the search goes on to the next
\* candidate, or ends in the exhaustion error after the 18th) if and only
\* if the error's code is MODULE_NOT_FOUND or
\* QUALIFIED_PATH_RESOLUTION_FAILED or its message contains "not find" in
\* any letter case; every other failure ends the call with that error.
C15_Classification ==
  [][(Attempt /\ lastLoad'.kind = "throw") =>
       LET e  == lastLoad'.err
           nf == \/ e.code = "MODULE_NOT_FOUND"
                 \/ e.code = "QUALIFIED_PATH_RESOLUTION_FAILED"
                 \/ e.message \in NotFindMessages
       IN  /\ (nf /\ Len(loaded') < 18) =>
                pc' = "load" /\ i' = i + 1 /\ result' = result
           /\ (nf /\ Len(loaded') = 18) =>
                /\ pc' = "idle"
                /\ result'.kind = "throw"
                /\ result'.err.code = "ERR_BINDINGS_NOT_FOUND"
           /\ ~nf => pc' = "idle" /\ result' = Throw(e)]_vars

\* C15 witness: an error without a code whose message reads "Could Not
\* Find the file" was swallowed and the search went on.
C15_Witness ==
  /\ pc = "load"
  /\ lastLoad.kind = "throw"
  /\ lastLoad.err.code = ""
  /\ lastLoad.err.message = "Could Not Find the file"
  /\ i = Len(loaded) + 1

\* The root walk goes up the chain of the starting directory one directory
\* at a time, so it tests no directory twice; it stops at a marker or at
\* the filesystem root; the loop makes at most 18 load attempts.
WalkBounded ==
  /\ \A k \in 1..Len(tested) :
       /\ tested[k] \in Ancestors(tested[1])
       /\ Len(tested[k]) = Len(tested[1]) - k + 1
  /\ (pc \in {"load", "idle"} /\ tested # <<>>) =>
       \/ Marked(tested[Len(tested)])
       \/ tested[Len(tested)] = <<"/">>
  /\ Len(loaded) <= 18

\* C16: every call that has started runs to completion, with an artifact or
\* an error, and its root walk and candidate loop are bounded as above.
C16_Termination ==
  /\ []WalkBounded
  /\ [](pc = "idle" => (ncalls > 0 => result.kind \in {"return", "throw"}))
  /\ (pc # "idle") ~> (pc = "idle")

\* C16 witness: a call walked from /a/b/c to the filesystem root, testing
\* four directories, and ended with an error.
C16_Witness ==
  /\ pc = "idle"
  /\ Len(tested) = 4
  /\ tested[4] = <<"/">>
  /\ result.kind = "throw"

\* C17: no call changes the defaults (the template list is a constant of
\* the module), and the files a call tries are a function of its root and
\* normalized name alone: the k-th is root/<k-th location>/name, whatever
\* calls came before.
C17_DefaultsUntouched ==
  /\ defaultsNow =
       [root     |-> <<"/">>,
        name     |-> <<"bindings.node">>,
        arch     |-> <<"x64">>,
        compiled |-> <<"compiled">>,
        pregyp   |-> <<"node-v108-linux-x64">>,
        platform |-> <<"linux">>,
        version  |-> <<"18.0.0">>]
  /\ Len(paths) = 18
  /\ \A k \in 1..Len(loaded) : loaded[k] = root \o SearchOrder[k] \o <<name>>
  /\ pc = "load" =>
       \A k \in 1..18 :
         candidate(paths[k], Options(root, name)) = root \o SearchOrder[k] \o <<name>>

\* C17 witness: a second call found the root /a/b/c and tried all 18
\* candidates, with the defaults as they were at the start.
C17_Witness ==
  /\ ncalls = 2
  /\ root = <<"/", "a", "b", "c">>
  /\ Len(loaded) = 18
  /\ defaultsNow.root = <<"/">>
  /\ defaultsNow.name = <<"bindings.node">>

\* The call's key has no usable entry in the cache.
CacheMiss ==
  \/ <<name, "\\0">> \o path \notin DOMAIN cache
  \/ cache[<<name, "\\0">> \o path] = Number(0)

====
